---- MODULE Spec2Model ----
(***************************************************************************)
(* The broker connection / publish core of retro_games_catalog.            *)
(*                                                                         *)
(* Three Node.js processes publish to RabbitMQ:                            *)
(*   "mp"  the message-producer        src/message-producer/app.js 1-226   *)
(*   "ge"  the game_events backend     src/message-producer/app.js 228-740 *)
(*   "bs"  backend/server.js           src/backend/server.js               *)
(* A behaviour follows one process; role is chosen in Init and never       *)
(* changes.  mp and ge share connectToRabbitMQ and sendToQueue verbatim    *)
(* and differ in their call sites; bs has its own versions of both.        *)
(*                                                                         *)
(* Node.js runs one callback at a time: every action below is one run of   *)
(* the event loop (a callback with the promise continuations it releases). *)
(* An await on the transport ends an action; its resolution or rejection   *)
(* starts a later one.                                                     *)
(***************************************************************************)
EXTENDS Integers, Sequences, FiniteSets, TLC

\* ---------------------------------------------------------------- bounds
\* connections the broker accepts during one behaviour
MaxConns == 3
\* reconnect timers plus connectToRabbitMQ invocations outstanding at once
MaxPending == 2
\* envelopes a broker queue holds
MaxQueue == 1
\* sendToQueue calls in progress at once
MaxCalls == 1
\* SIGINT deliveries to the process
MaxSigints == 2

\* ------------------------------------------------------ program constants
\* null, the initial value of rabbitConnection and rabbitChannel
Null == 0
\* connectToRabbitMQ(retries = 5, ...) of backend/server.js
Retries == 5
\* setTimeout(connectToRabbitMQ, 5000)
ReconnectDelay == 5000
\* `delay = 5000`, the default of connectToRabbitMQ's second parameter in bs
Delay == 5000

Roles == {"mp", "ge", "bs"}
Producers == {"mp", "ge"}

ConnIds == 1..MaxConns
Slots == 1..MaxPending
CallIds == 1..MaxCalls

VARIABLES
    role,              \* which process this behaviour follows
    rabbitConnection,  \* let rabbitConnection: Null or a connection id
    rabbitChannel,     \* let rabbitChannel: Null or k, the channel created on connection k
    listening,         \* the HTTP server accepts requests
    timers,            \* pending setTimeout(connectToRabbitMQ, d): the delays d
    attempts,          \* running connectToRabbitMQ invocations, oldest first
    calls,             \* sendToQueue calls in progress or just completed, by slot
    nextConn,          \* id of the next connection the broker opens
    conn,              \* transport state of each connection
    handlers,          \* error/close handler pairs installed on each connection
    declared,          \* broker: durability each queue was declared with
    conflict,          \* a queue declaration was refused for conflicting flags
    queue,             \* broker: the ready envelopes, oldest first, each with its queue's name
    signalSeen,        \* an error or close handler has run
    proc,              \* the process: running, closing on SIGINT, or exited
    req,               \* the HTTP request each slot serves
    games,             \* database: the row of table games with id ParamId
    update,            \* the PUT /api/games/:id in progress: its queries so far
    consumer           \* the consumer of the process's queues and the delivery it holds

vars == <<role, rabbitConnection, rabbitChannel, listening, timers, attempts, calls,
          nextConn, conn, handlers, declared, conflict, queue, signalSeen, proc, req,
          games, update, consumer>>

\* ------------------------------------------------------------- JS values
\* A JavaScript value: t is its type, s its text (numbers and strings), o the
\* properties of an object, in insertion order, as <<key, value>> pairs.
Str(x) == [t |-> "str", s |-> x, o |-> <<>>]
Num(x) == [t |-> "num", s |-> x, o |-> <<>>]
Undefined == [t |-> "undefined", s |-> "", o |-> <<>>]
JsNull == [t |-> "null", s |-> "", o |-> <<>>]
Obj(props) == [t |-> "obj", s |-> "", o |-> props]

\* obj[k]: the value of the last property named k, undefined when there is none
Get(props, k) ==
    LET idx == {i \in 1..Len(props) : props[i][1] = k}
    IN  IF idx = {} THEN Undefined
        ELSE props[CHOOSE i \in idx : \A j \in idx : j <= i][2]

Keys(props) == {props[i][1] : i \in 1..Len(props)}

\* JSON.stringify of an object's properties: a property whose value is
\* undefined is left out, every other one is written in order, objects
\* recursively.  The result is the JSON document that Buffer.from turns
\* into the message body.
RECURSIVE StringifyProps(_)
StringifyProps(props) ==
    IF props = <<>> THEN <<>>
    ELSE LET p == Head(props)
             rest == StringifyProps(Tail(props))
         IN  IF p[2].t = "undefined" THEN rest
             ELSE IF p[2].t = "obj"
                  THEN <<[k |-> p[1], t |-> "obj", s |-> "", o |-> StringifyProps(p[2].o)]>> \o rest
                  ELSE <<[k |-> p[1], t |-> p[2].t, s |-> p[2].s, o |-> <<>>]>> \o rest

JSONStringify(message) == [json |-> StringifyProps(message)]

\* JSON.parse, the reading side of the wire format
RECURSIVE ParseMembers(_)
ParseMembers(members) ==
    IF members = <<>> THEN <<>>
    ELSE LET m == Head(members)
         IN  <<<<m.k, [t |-> m.t, s |-> m.s,
                       o |-> IF m.t = "obj" THEN ParseMembers(m.o) ELSE <<>>]>>>>
             \o ParseMembers(Tail(members))

JSONParse(body) == ParseMembers(body.json)

\* ------------------------------------------------------------ call sites
QueueNames == {"game_events", "image_processing", "metadata_enrichment"}

\* the queues connectToRabbitMQ declares, in order
QueuesOf(r) ==
    IF r = "bs" THEN <<"image_processing", "metadata_enrichment">>
    ELSE <<"game_events">>

\* the durable flag of every assertQueue call
DurableFlag(r, q) == TRUE

Timestamp == Str("2024-01-01T00:00:00.000Z")

\* The <<queue, message>> arguments the routes of each process pass to
\* sendToQueue.
CallArgs(r) ==
    IF r = "mp" THEN
        { <<"game_events", << <<"gameId", Num("42")>>, <<"action", Str("create")>>,
                              <<"gameData", Obj(<<>>)>>, <<"timestamp", Timestamp>> >> >>,
          <<"game_events", << <<"type", Str("custom")>>, <<"message", Str("hello")>>,
                              <<"timestamp", Timestamp>> >> >> }
    ELSE IF r = "ge" THEN
        { <<"game_events", << <<"gameId", Num("7")>>, <<"action", Str("update")>>,
                              <<"gameData", Obj(<< <<"title", Str("Pong")>>,
                                                   <<"imageUrl", Undefined>> >>)>>,
                              <<"timestamp", Timestamp>> >> >>,
          <<"game_events", << <<"gameId", Num("7")>>, <<"action", Str("delete")>>,
                              <<"timestamp", Timestamp>> >> >> }
    ELSE
        { <<"image_processing", << <<"gameId", Num("7")>>, <<"imageUrl", JsNull>> >> >>,
          <<"metadata_enrichment", << <<"gameId", Num("7")>>, <<"title", Str("Pong")>>,
                                      <<"developer", Str("Atari")>> >> >> }

\* ------------------------------------------------------------ initial state
\* A connectToRabbitMQ invocation: pc is the await it is suspended at, c the
\* connection its amqp.connect returned, ch the channel its pending
\* assertQueue was issued on, qi the index of that queue, n the loop counter
\* of backend/server.js, caller who gets control when it returns.
StartAttempt(who, i) == [pc |-> "connect", c |-> Null, ch |-> Null, n |-> 1, qi |-> 0,
                         wait |-> 0, caller |-> who, cid |-> i]

\* A sendToQueue call: its arguments; startNull, whether rabbitChannel was
\* null on entry; connects, the connectToRabbitMQ calls it made; rechecked,
\* what it read from rabbitChannel after awaiting one ("none" before);
\* sends, its calls of channel.sendToQueue, usedChannel the channel of the
\* last one and outcome what that answered ("typeError" when the channel
\* read was null); result, the value returned; threw, an exception left it;
\* sinceSignal, an error or close handler had run before the call.
IdleCall == [pc |-> "idle", queue |-> "", message |-> <<>>, startNull |-> FALSE,
             sinceSignal |-> FALSE, connects |-> 0, rechecked |-> "none", sends |-> 0, usedChannel |-> Null,
             outcome |-> "none", result |-> FALSE, threw |-> FALSE]

\* The process and its SIGINT handler: pc is "running", "closing" while a
\* handler awaits rabbitConnection.close(), "exited" after process.exit;
\* code is the exit code (-1 before), sigints the signals delivered, closing
\* the connections with a close() pending, found what the handler that
\* called process.exit had read from rabbitConnection, logged whether it
\* went through its catch block.
Running == [pc |-> "running", code |-> -1, sigints |-> 0, closing |-> {}, found |-> Null,
            logged |-> FALSE]

\* A request: pc is "none" when the slot serves none, "sending" while its
\* route awaits sendToQueue, "responded" once it has answered; route, the
\* route; status, the status code of the answer; wrote, the route's INSERT,
\* UPDATE or DELETE was carried out; sent, the sendToQueue calls it made:
\* queue, message, and ok, the value the call returned.
NoRequest == [pc |-> "none", route |-> "", status |-> 0, wrote |-> FALSE, sent |-> <<>>]

\* The row of games the requests are about, as retro_games.sql inserts it.
SeedRow == [image_url |-> JsNull, processing_status |-> "completed",
            metadata_status |-> "completed"]

\* The PUT /api/games/:id in progress: pc is "none" before its SELECT,
\* "selected" after it, "updated" after its UPDATE; imageUrl is
\* req.body.imageUrl, oldImageUrl gameRows[0].image_url; pending says the
\* UPDATE set processing_status to 'pending', stored is the
\* processing_status it left; processingStatus is what the answer reports.
NoUpdate == [pc |-> "none", imageUrl |-> Undefined, oldImageUrl |-> Undefined,
             pending |-> FALSE, stored |-> "", processingStatus |-> ""]

\* The consumer: pc is "idle" with no delivery, "malformed" with one it
\* cannot deserialize, "handling" while its handler runs, "failed" when the
\* handler raised a domain error, "reported" when the owner answered its
\* outcome report; q and env are the delivery, redelivered its redelivery
\* flag; status is the owner's answer, landed says the report updated a row.
Idle == [pc |-> "idle", q |-> "", env |-> <<>>, redelivered |-> FALSE, status |-> 0,
         landed |-> FALSE]

\* Module load: mp and ge call connectToRabbitMQ() without awaiting it and
\* listen at once; bs awaits it inside initializeApp and listens afterwards.
Init ==
    /\ role \in Roles
    /\ rabbitConnection = Null
    /\ rabbitChannel = Null
    /\ listening = (role \in Producers)
    /\ timers = <<>>
    /\ attempts = <<StartAttempt("startup", 0)>>
    /\ calls = [i \in CallIds |-> IdleCall]
    /\ nextConn = 1
    /\ conn = [c \in ConnIds |-> "unused"]
    /\ handlers = [c \in ConnIds |-> 0]
    /\ declared = [q \in QueueNames |-> "none"]
    /\ conflict = FALSE
    /\ queue = <<>>
    /\ signalSeen = FALSE
    /\ proc = Running
    /\ req = [i \in CallIds |-> NoRequest]
    /\ games = SeedRow
    /\ update = NoUpdate
    /\ consumer = Idle

\* ------------------------------------------------------------ the code
\* The module-level variables a callback reads and writes, as one value:
\* cn is rabbitConnection, ch rabbitChannel, tm the pending timers.
Globals == [cn |-> rabbitConnection, ch |-> rabbitChannel, tm |-> timers]

SetGlobals(g) ==
    /\ rabbitConnection' = g.cn
    /\ rabbitChannel' = g.ch
    /\ timers' = g.tm

\* the process has not exited
Alive == proc.pc # "exited"

Active(a) == a <= Len(attempts)
Pending == Len(timers) + Len(attempts)
RemoveAt(seq, a) == SubSeq(seq, 1, a - 1) \o SubSeq(seq, a + 1, Len(seq))

\* rabbitConnection.on("error", ...) and rabbitConnection.on("close", ...):
\* one run of either handler.  mp and ge clear both references and set a
\* timer; bs sets the timer only.
OnSignal(r, g) ==
    IF r = "bs" THEN [g EXCEPT !.tm = Append(@, ReconnectDelay)]
    ELSE [cn |-> Null, ch |-> Null, tm |-> Append(g.tm, ReconnectDelay)]

\* the catch block of connectToRabbitMQ in mp and ge
ConnectCatch(g) == [cn |-> Null, ch |-> Null, tm |-> Append(g.tm, ReconnectDelay)]

\* the catch block of sendToQueue
SendCatch(r, g) ==
    IF r = "bs" THEN g
    ELSE [cn |-> Null, ch |-> Null, tm |-> Append(g.tm, ReconnectDelay)]

\* sendToQueue on entry without the inline reconnect, everywhere
SendEntry_NoReconnect(r, channel) == IF channel # Null THEN "send" ELSE "returnFalse"

\* sendToQueue on entry: what the check of rabbitChannel leads to
SendEntry(r, channel) ==
    IF channel # Null THEN "send"
    ELSE IF r = "bs" THEN "returnFalse" ELSE "connect"

\* after the await, without the second check of rabbitChannel
AfterConnect_Unchecked(channel) == "send"

\* sendToQueue of mp and ge after `await connectToRabbitMQ()`: rabbitChannel
\* is read again
AfterConnect(channel) == IF channel # Null THEN "send" ELSE "returnFalse"

\* the content sent without the persistent option
Envelope_Transient(message) == [body |-> JSONStringify(message), persistent |-> FALSE]

\* the content and options handed to channel.sendToQueue
Envelope(message) == [body |-> JSONStringify(message), persistent |-> TRUE]

\* sendToQueue waiting for the channel's "drain" event when the transport
\* answered false
SendResult_WaitDrain(r, cl, g, answer) ==
    IF answer = "throw"
    THEN [call |-> [cl EXCEPT !.pc = "done", !.result = FALSE], g |-> SendCatch(r, g)]
    ELSE IF answer = "false"
    THEN [call |-> [cl EXCEPT !.pc = "drain"], g |-> g]
    ELSE [call |-> [cl EXCEPT !.pc = "done", !.result = TRUE], g |-> g]

\* sendToQueue from the transport's answer on: "true" and "false" are the
\* values channel.sendToQueue returned, "throw" is an exception raised in
\* the try block.  Gives the completed call and the globals.
SendResult(r, cl, g, answer) ==
    IF answer = "throw"
    THEN [call |-> [cl EXCEPT !.pc = "done", !.result = FALSE], g |-> SendCatch(r, g)]
    ELSE [call |-> [cl EXCEPT !.pc = "done", !.result = (answer = "true")], g |-> g]

\* ------------------------------------------------------------ /health
\* GET /health answered with cn in rabbitConnection and ch in rabbitChannel:
\* the status code and the rabbitmq property of the body ("absent" when the
\* body has none).  dev says NODE_ENV is "development"; the pool of bs is
\* never null while it listens.
Health(r, cn, ch, dev) ==
    IF r = "mp" THEN
        [code |-> 200, rabbitmq |-> IF cn # Null /\ ch # Null THEN "connected" ELSE "disconnected"]
    ELSE IF r = "ge" THEN
        [code |-> 200, rabbitmq |-> IF ch # Null THEN "connected" ELSE "disconnected"]
    ELSE IF ch # Null \/ dev THEN [code |-> 200, rabbitmq |-> "absent"]
    ELSE [code |-> 503, rabbitmq |-> IF ch # Null THEN "connected" ELSE "disconnected"]

\* ------------------------------------------------------------ transport
\* The broker has a connection left to give.
Reachable == nextConn <= MaxConns

\* channel.sendToQueue on channel k: it throws once the channel's connection
\* is gone; otherwise it returns true, or false when its write buffer is
\* full.
TransportAnswers(k) == IF conn[k] = "open" THEN {"true", "false"} ELSE {"throw"}

FlagName(d) == IF d THEN "durable" ELSE "transient"

\* The broker routes a publish to the queue of that name when the queue
\* exists; a publish to a name nobody declared is dropped.
Routable(q) == declared[q] # "none"

\* What the broker does with a write to q that channel.sendToQueue answered
\* with `answer`, its ready envelopes being qu: wrote says it added the
\* envelope.  A write answered true reaches it; one answered false was
\* buffered by the channel and reaches it or not; the broker adds it when q
\* exists.
Took(qu, q, answer, wrote) ==
    /\ wrote => (answer # "throw" /\ Routable(q))
    /\ (answer = "true" /\ Routable(q)) => wrote
    /\ wrote => Len(qu) < MaxQueue

\* the ready envelopes after that write.  restarted says the broker has
\* restarted since it took the envelope.
Put(qu, q, message, wrote) ==
    IF wrote THEN Append(qu, [q |-> q, env |-> Envelope(message), restarted |-> FALSE])
    ELSE qu

\* channel.sendToQueue called a second time when the first call answered
\* false
Transmit_SendAgain(i, cl, g) ==
    \E answer \in TransportAnswers(g.ch), wrote \in BOOLEAN :
        /\ Took(queue, cl.queue, answer, wrote)
        /\ queue' = Put(queue, cl.queue, cl.message, wrote)
        /\ LET sent == [cl EXCEPT !.sends = @ + (IF answer = "false" THEN 2 ELSE 1),
                                  !.usedChannel = g.ch, !.outcome = answer]
               res == SendResult(role, sent, g, answer)
           IN  /\ calls' = [calls EXCEPT ![i] = res.call]
               /\ SetGlobals(res.g)

\* channel.sendToQueue(queue, content, options) of call i with globals g,
\* g.ch # Null, and the rest of sendToQueue.
Transmit(i, cl, g) ==
    \E answer \in TransportAnswers(g.ch), wrote \in BOOLEAN :
        /\ Took(queue, cl.queue, answer, wrote)
        /\ queue' = Put(queue, cl.queue, cl.message, wrote)
        /\ LET sent == [cl EXCEPT !.sends = @ + 1, !.usedChannel = g.ch, !.outcome = answer]
               res == SendResult(role, sent, g, answer)
           IN  /\ calls' = [calls EXCEPT ![i] = res.call]
               /\ SetGlobals(res.g)

\* rabbitChannel.sendToQueue with rabbitChannel null: a TypeError, caught by
\* the catch block of sendToQueue; the transport is not invoked.
NullDeref(i, cl, g) ==
    LET res == SendResult(role, [cl EXCEPT !.outcome = "typeError"], g, "throw")
    IN  /\ calls' = [calls EXCEPT ![i] = res.call]
        /\ SetGlobals(res.g)
        /\ UNCHANGED queue

\* ------------------------------------------------------------ sendToQueue
\* sendToQueue(queue, message) of call i, args being <<queue, message>>, up
\* to its first await or its return.
SendToQueue(i, args) ==
    LET cl == [IdleCall EXCEPT !.queue = args[1], !.message = args[2],
                               !.startNull = (rabbitChannel = Null),
                               !.sinceSignal = signalSeen]
        d == SendEntry(role, rabbitChannel)
    IN  CASE d = "returnFalse" ->
                /\ calls' = [calls EXCEPT ![i] = [cl EXCEPT !.pc = "done", !.result = FALSE]]
                /\ UNCHANGED <<rabbitConnection, rabbitChannel, timers, attempts, queue>>
          [] d = "connect" ->
                /\ Pending < MaxPending
                /\ attempts' = Append(attempts, StartAttempt("call", i))
                /\ calls' = [calls EXCEPT ![i] = [cl EXCEPT !.pc = "await", !.connects = 1]]
                /\ UNCHANGED <<rabbitConnection, rabbitChannel, timers, queue>>
          [] OTHER ->
                /\ IF rabbitChannel = Null
                   THEN Pending < MaxPending /\ NullDeref(i, cl, Globals)
                   ELSE /\ (role # "bs" /\ conn[rabbitChannel] # "open") => Pending < MaxPending
                        /\ Transmit(i, cl, Globals)
                /\ UNCHANGED attempts

\* sendToQueue(queue, message) is called.  It is the publish operation of
\* the core and the routes are its callers: a call may come whenever the
\* process serves requests.
CallSendToQueue(i) ==
    /\ Alive
    /\ listening
    /\ calls[i].pc = "idle"
    /\ \E args \in CallArgs(role) : SendToQueue(i, args)
    /\ UNCHANGED <<role, games, update, consumer, proc, req, listening, nextConn, conn, handlers, declared, conflict, signalSeen>>

\* The route takes the value its sendToQueue call returned.
CallReturn(i) ==
    /\ Alive
    /\ calls[i].pc = "done"
    /\ calls' = [calls EXCEPT ![i] = IdleCall]
    /\ UNCHANGED <<role, games, update, consumer, proc, req, rabbitConnection, rabbitChannel, listening, timers, attempts,
                   nextConn, conn, handlers, declared, conflict, queue, signalSeen>>

\* sendToQueue of call i goes on after `await connectToRabbitMQ()`, in the
\* callback that ended the invocation in slot a.
Resume(i, g, a) ==
    LET d == AfterConnect(g.ch)
        cl == [calls[i] EXCEPT !.rechecked = IF g.ch = Null THEN "null" ELSE "held"]
    IN  CASE d = "returnFalse" ->
                /\ calls' = [calls EXCEPT ![i] = [cl EXCEPT !.pc = "done", !.result = FALSE]]
                /\ attempts' = RemoveAt(attempts, a)
                /\ SetGlobals(g)
                /\ UNCHANGED queue
          [] OTHER ->
                /\ attempts' = RemoveAt(attempts, a)
                /\ IF g.ch = Null THEN NullDeref(i, cl, g)
                   ELSE Transmit(i, cl, g)

\* -------------------------------------------------------- connectToRabbitMQ
\* connectToRabbitMQ in slot a returns, leaving globals g; ok says whether
\* it connected.  The caller continues in the same callback: sendToQueue
\* after its await, initializeApp of bs with lines 145-149, nothing for a
\* timer or the unawaited start-up call of mp and ge.
Finish(a, g, ok) ==
    /\ CASE attempts[a].caller = "call" ->
                /\ Resume(attempts[a].cid, g, a)
                /\ UNCHANGED listening
          [] attempts[a].caller = "startup" /\ role = "bs" ->
                /\ SetGlobals(IF ok THEN g ELSE [g EXCEPT !.cn = Null, !.ch = Null])
                /\ listening' = TRUE
                /\ attempts' = RemoveAt(attempts, a)
                /\ UNCHANGED <<calls, queue>>
          [] OTHER ->
                /\ SetGlobals(g)
                /\ attempts' = RemoveAt(attempts, a)
                /\ UNCHANGED <<listening, calls, queue>>

\* connectToRabbitMQ going back to amqp.connect after a failure, for as
\* long as it fails, instead of returning
Catch_RetryInside(a, g) ==
    /\ attempts' = [attempts EXCEPT ![a] = StartAttempt(@.caller, @.cid)]
    /\ SetGlobals(g)
    /\ UNCHANGED <<listening, calls, queue>>

\* the loop of bs going round once more than `retries`
Catch_OneMore(a, g) ==
    IF role = "bs"
    THEN IF attempts[a].n <= Retries
         THEN /\ attempts' = [attempts EXCEPT ![a] = [@ EXCEPT !.pc = "delay", !.wait = Delay]]
              /\ SetGlobals(g)
              /\ UNCHANGED <<listening, calls, queue>>
         ELSE Finish(a, g, FALSE)
    ELSE Finish(a, ConnectCatch(g), FALSE)

\* An await of connectToRabbitMQ rejected, or a statement of its try block
\* threw.  mp, ge: the catch block, then return.  bs: the catch block of the
\* loop body; wait `delay` and go round again while attempt < retries, else
\* leave the loop and return { connection: null, channel: null }.
Catch(a, g) ==
    IF role = "bs"
    THEN IF attempts[a].n < Retries
         THEN /\ attempts' = [attempts EXCEPT ![a] = [@ EXCEPT !.pc = "delay", !.wait = Delay]]
              /\ SetGlobals(g)
              /\ UNCHANGED <<listening, calls, queue>>
         ELSE Finish(a, g, FALSE)
    ELSE Finish(a, ConnectCatch(g), FALSE)

\* amqp.connect resolves: rabbitConnection = <the new connection>, then
\* rabbitConnection.createChannel() is issued on it.
ConnectOk(a) ==
    /\ Alive
    /\ Active(a)
    /\ attempts[a].pc = "connect"
    /\ Reachable
    /\ conn' = [conn EXCEPT ![nextConn] = "open"]
    /\ nextConn' = nextConn + 1
    /\ rabbitConnection' = nextConn
    /\ attempts' = [attempts EXCEPT ![a] = [@ EXCEPT !.pc = "createChannel", !.c = nextConn]]
    /\ UNCHANGED <<role, games, update, consumer, proc, req, rabbitChannel, listening, timers, calls, handlers,
                   declared, conflict, queue, signalSeen>>

\* amqp.connect rejects: the broker is down or refuses.
ConnectFail(a) ==
    /\ Alive
    /\ Active(a)
    /\ attempts[a].pc = "connect"
    /\ Catch(a, Globals)
    /\ UNCHANGED <<role, games, update, consumer, proc, req, nextConn, conn, handlers, declared, conflict, signalSeen>>

\* createChannel resolves: rabbitChannel = <the new channel>, then
\* rabbitChannel.assertQueue(<first queue>) is issued on it.
CreateChannelOk(a) ==
    /\ Alive
    /\ Active(a)
    /\ attempts[a].pc = "createChannel"
    /\ conn[attempts[a].c] = "open"
    /\ rabbitChannel' = attempts[a].c
    /\ attempts' = [attempts EXCEPT ![a] = [@ EXCEPT !.pc = "assertQueue", !.ch = attempts[a].c,
                                                     !.qi = 1]]
    /\ UNCHANGED <<role, games, update, consumer, proc, req, rabbitConnection, listening, timers, calls, nextConn, conn,
                   handlers, declared, conflict, queue, signalSeen>>

\* createChannel rejects: the connection went while it was pending.
CreateChannelFail(a) ==
    /\ Alive
    /\ Active(a)
    /\ attempts[a].pc = "createChannel"
    /\ conn[attempts[a].c] # "open"
    /\ Catch(a, Globals)
    /\ UNCHANGED <<role, games, update, consumer, proc, req, nextConn, conn, handlers, declared, conflict, signalSeen>>

\* The broker takes a declaration of q with flag d when q is new or was
\* declared with the same flag.
DeclareOk(q, d) == declared[q] \in {"none", FlagName(d)}

\* The statements after the last assertQueue: both handlers are installed on
\* whatever rabbitConnection holds now (a TypeError when it is null), and the
\* function returns.
InstallHandlers(a) ==
    IF rabbitConnection = Null
    THEN Catch(a, Globals) /\ UNCHANGED handlers
    ELSE /\ handlers' = [handlers EXCEPT ![rabbitConnection] = @ + 1]
         /\ Finish(a, Globals, TRUE)

\* assertQueue resolves.  With a queue left to declare, the next
\* rabbitChannel.assertQueue is issued on whatever rabbitChannel holds now;
\* otherwise the handlers are installed.
AssertQueueOk(a) ==
    /\ Alive
    /\ Active(a)
    /\ attempts[a].pc = "assertQueue"
    /\ LET q == QueuesOf(role)[attempts[a].qi]
       IN
        /\ conn[attempts[a].ch] = "open"
        /\ DeclareOk(q, DurableFlag(role, q))
        /\ declared' = [declared EXCEPT ![q] = FlagName(DurableFlag(role, q))]
        /\ IF attempts[a].qi < Len(QueuesOf(role))
           THEN IF rabbitChannel = Null
                THEN Catch(a, Globals) /\ UNCHANGED handlers
                ELSE /\ attempts' = [attempts EXCEPT ![a] = [@ EXCEPT !.ch = rabbitChannel,
                                                                 !.qi = @ + 1]]
                     /\ UNCHANGED <<rabbitConnection, rabbitChannel, listening, timers, calls,
                                    handlers, queue>>
           ELSE InstallHandlers(a)
        /\ UNCHANGED <<role, games, update, consumer, proc, req, nextConn, conn, conflict, signalSeen>>

\* assertQueue rejects: the connection went, or the broker refused flags
\* that conflict with the queue's.
AssertQueueFail(a) ==
    /\ Alive
    /\ Active(a)
    /\ attempts[a].pc = "assertQueue"
    /\ LET q == QueuesOf(role)[attempts[a].qi]
       IN
        /\ conn[attempts[a].ch] # "open" \/ ~DeclareOk(q, DurableFlag(role, q))
        /\ conflict' = (conflict \/ (conn[attempts[a].ch] = "open" /\ ~DeclareOk(q, DurableFlag(role, q))))
        /\ Catch(a, Globals)
        /\ UNCHANGED <<role, games, update, consumer, proc, req, nextConn, conn, handlers, declared, signalSeen>>

\* bs: the delay between two rounds of the loop is over; attempt++ and
\* amqp.connect again.
DelayDone(a) ==
    /\ Alive
    /\ Active(a)
    /\ attempts[a].pc = "delay"
    /\ attempts' = [attempts EXCEPT ![a] = [@ EXCEPT !.pc = "connect", !.n = @ + 1, !.wait = 0,
                                                     !.c = Null, !.ch = Null, !.qi = 0]]
    /\ UNCHANGED <<role, games, update, consumer, proc, req, rabbitConnection, rabbitChannel, listening, timers, calls, nextConn, conn, handlers, declared, conflict, queue, signalSeen>>

\* A reconnect timer fires: connectToRabbitMQ() is called.
TimerFire ==
    /\ Alive
    /\ timers # <<>>
    /\ timers' = Tail(timers)
    /\ attempts' = Append(attempts, StartAttempt("timer", 0))
    /\ UNCHANGED <<role, games, update, consumer, proc, req, rabbitConnection, rabbitChannel, listening, calls, nextConn,
                   conn, handlers, declared, conflict, queue, signalSeen>>

\* ------------------------------------------------------------ environment
\* k runs of a handler, one after the other
RECURSIVE RunHandlers(_, _, _)
RunHandlers(r, k, g) == IF k = 0 THEN g ELSE RunHandlers(r, k - 1, OnSignal(r, g))

\* Connection c emits "error" (a "close" follows): every installed error
\* handler runs.  A connection nobody listens to only closes.
ErrorSignal(c) ==
    /\ Alive
    /\ conn[c] = "open"
    /\ handlers[c] > 0
    /\ Pending + handlers[c] <= MaxPending
    /\ conn' = [conn EXCEPT ![c] = "erred"]
    /\ SetGlobals(RunHandlers(role, handlers[c], Globals))
    /\ signalSeen' = TRUE
    /\ UNCHANGED <<role, games, update, consumer, proc, req, listening, attempts, calls, nextConn, handlers, declared,
                   conflict, queue>>

\* Connection c emits "close": every installed close handler runs.
CloseSignal(c) ==
    /\ Alive
    /\ conn[c] \in {"open", "erred", "closing"}
    /\ Pending + handlers[c] <= MaxPending
    /\ conn' = [conn EXCEPT ![c] = "closed"]
    /\ SetGlobals(RunHandlers(role, handlers[c], Globals))
    /\ signalSeen' = (signalSeen \/ handlers[c] > 0)
    /\ UNCHANGED <<role, games, update, consumer, proc, req, listening, attempts, calls, nextConn, handlers, declared,
                   conflict, queue>>

\* Another process of the system declares a queue this process declares
\* too, with the flag its own connectToRabbitMQ passes.
PeerDeclare ==
    /\ \E r \in Roles \ {role} : \E k \in 1..Len(QueuesOf(r)) :
        LET q == QueuesOf(r)[k]
        IN  /\ \E j \in 1..Len(QueuesOf(role)) : QueuesOf(role)[j] = q
            /\ declared[q] # FlagName(DurableFlag(r, q))
            /\ IF DeclareOk(q, DurableFlag(r, q))
               THEN declared' = [declared EXCEPT ![q] = FlagName(DurableFlag(r, q))]
                    /\ UNCHANGED conflict
               ELSE conflict' = TRUE /\ UNCHANGED declared
    /\ UNCHANGED <<role, games, update, consumer, proc, req, rabbitConnection, rabbitChannel, listening, timers, attempts, calls,
                   nextConn, conn, handlers, queue, signalSeen>>

\* The consumer of q takes the envelope at the head and acknowledges it.
Consume(q) ==
    /\ \E k \in 1..Len(queue) :
        /\ queue[k].q = q
        /\ \A j \in 1..(k - 1) : queue[j].q # q
        /\ queue' = RemoveAt(queue, k)
    /\ UNCHANGED <<role, games, update, consumer, proc, req, rabbitConnection, rabbitChannel, listening, timers, attempts, calls,
                   nextConn, conn, handlers, declared, conflict, signalSeen>>

\* The broker process, all its connections gone, starts again: a durable
\* queue is still there with its persistent messages; other queues and
\* other messages are not.
BrokerRestart ==
    /\ \A c \in ConnIds : conn[c] \in {"unused", "closed"}
    /\ queue' = [k \in 1..Len(SelectSeq(queue, LAMBDA e : e.env.persistent /\ declared[e.q] = "durable"))
                    |-> [SelectSeq(queue, LAMBDA e : e.env.persistent /\ declared[e.q] = "durable")[k]
                            EXCEPT !.restarted = TRUE]]
    /\ declared' = [q \in QueueNames |-> IF declared[q] = "durable" THEN "durable" ELSE "none"]
    /\ UNCHANGED <<role, games, update, consumer, proc, req, rabbitConnection, rabbitChannel, listening, timers, attempts, calls,
                   nextConn, conn, handlers, conflict, signalSeen>>

Next ==
    \/ \E a \in Slots : ConnectOk(a)
    \/ \E a \in Slots : ConnectFail(a)
    \/ \E a \in Slots : CreateChannelOk(a)
    \/ \E a \in Slots : CreateChannelFail(a)
    \/ \E a \in Slots : AssertQueueOk(a)
    \/ \E a \in Slots : AssertQueueFail(a)
    \/ \E a \in Slots : DelayDone(a)
    \/ TimerFire
    \/ \E i \in CallIds : CallSendToQueue(i)
    \/ \E i \in CallIds : CallReturn(i)
    \/ \E c \in ConnIds : ErrorSignal(c)
    \/ \E c \in ConnIds : CloseSignal(c)
    \/ PeerDeclare
    \/ \E q \in QueueNames : Consume(q)

Spec == Init /\ [][Next]_vars

\* -------------------------------------------------------------- routes
\* !v is false
Truthy(v) ==
    ~(\/ v.t \in {"undefined", "null"}
      \/ v.t = "str" /\ v.s = ""
      \/ v.t = "num" /\ v.s \in {"0", "NaN"})

\* a || b
Or(a, b) == IF Truthy(a) THEN a ELSE b

\* Number.parseInt of a decimal string without sign or leading zero
ParseInt(x) == Num(x)

\* the routes of each process that publish
Routes(r) ==
    IF r = "mp" THEN {"POST /api/messages/game-event", "POST /api/messages/custom"}
    ELSE IF r = "ge" THEN {"POST /api/games", "PUT /api/games/:id", "DELETE /api/games/:id"}
    ELSE {"POST /api/games", "PUT /api/games/:id"}

\* req.params.id, and result.insertId of the INSERT
ParamId == "7"
InsertId == Num("8")

ImageUrl == Str("http://img/pong.png")

\* the properties every game body must have
Required == <<"title", "platformId", "genreId", "developer", "releaseYear", "yearCategory",
              "description">>

GameBody ==
    << <<"title", Str("Pong")>>, <<"platformId", Num("1")>>, <<"genreId", Num("2")>>,
       <<"developer", Str("Atari")>>, <<"releaseYear", Num("1972")>>,
       <<"yearCategory", Str("1970s")>>, <<"description", Str("Table tennis")>> >>

\* The request bodies (req.body) each route is given.
Bodies(rt) ==
    IF rt = "POST /api/messages/game-event" THEN
        { << <<"gameId", Num("42")>>, <<"action", Str("create")>> >>,
          << <<"gameId", Str("abc")>>, <<"action", Str("explode")>>, <<"gameData", Str("x")>> >>,
          << <<"action", Str("create")>> >> }
    ELSE IF rt = "POST /api/messages/custom" THEN
        { << <<"message", Str("hello")>> >>, << <<"message", Obj(<<>>)>> >>, <<>> }
    ELSE IF rt = "DELETE /api/games/:id" THEN { <<>> }
    ELSE { GameBody \o << <<"imageUrl", ImageUrl>> >>, GameBody, Tail(GameBody) }

\* What the queries of a route yield: "ok"; "missing", no game has the id;
\* "badRef", no platform or genre has the id given; "error", a query
\* rejects.
DbResults(r, rt) ==
    IF r = "mp" THEN {"ok"}
    ELSE IF rt = "POST /api/games" THEN {"ok", "badRef", "error"}
    ELSE IF rt = "PUT /api/games/:id" THEN {"ok", "missing", "badRef", "error"}
    ELSE {"ok", "missing", "error"}

\* gameRows[0].image_url, read by PUT of bs
OldImageUrls(r, rt) ==
    IF r = "bs" /\ rt = "PUT /api/games/:id" THEN {JsNull, ImageUrl} ELSE {Undefined}

\* The status a route answers with before it gets to publish, 0 when it
\* gets there.  ch is rabbitChannel as the route reads it.
EarlyStatus(r, rt, body, db, ch) ==
    IF rt = "POST /api/messages/game-event" THEN
        IF ~Truthy(Get(body, "gameId")) \/ ~Truthy(Get(body, "action")) THEN 400
        ELSE IF ch = Null THEN 503 ELSE 0
    ELSE IF rt = "POST /api/messages/custom" THEN
        IF ~Truthy(Get(body, "message")) THEN 400
        ELSE IF ch = Null THEN 503 ELSE 0
    ELSE IF rt = "DELETE /api/games/:id" THEN
        IF db = "missing" THEN 404 ELSE IF db = "error" THEN 500 ELSE 0
    ELSE IF \E k \in 1..Len(Required) : ~Truthy(Get(body, Required[k])) THEN 400
    ELSE IF db = "missing" THEN 404
    ELSE IF db = "badRef" THEN 400
    ELSE IF db = "error" THEN 500
    ELSE 0

\* gameData of the create and update messages of ge
GameData(body) ==
    [k \in 1..Len(Required) |-> <<Required[k], Get(body, Required[k])>>]
        \o << <<"imageUrl", Get(body, "imageUrl")>> >>

\* The message a route of mp or ge passes to sendToQueue("game_events", ...).
Message(rt, body) ==
    IF rt = "POST /api/messages/game-event" THEN
        << <<"gameId", Get(body, "gameId")>>, <<"action", Get(body, "action")>>,
           <<"gameData", Or(Get(body, "gameData"), Obj(<<>>))>>, <<"timestamp", Timestamp>> >>
    ELSE IF rt = "POST /api/messages/custom" THEN
        << <<"type", Str("custom")>>, <<"message", Get(body, "message")>>,
           <<"timestamp", Timestamp>> >>
    ELSE IF rt = "POST /api/games" THEN
        << <<"gameId", InsertId>>, <<"action", Str("create")>>,
           <<"gameData", Obj(GameData(body))>>, <<"timestamp", Timestamp>> >>
    ELSE IF rt = "PUT /api/games/:id" THEN
        << <<"gameId", ParseInt(ParamId)>>, <<"action", Str("update")>>,
           <<"gameData", Obj(GameData(body))>>, <<"timestamp", Timestamp>> >>
    ELSE
        << <<"gameId", ParseInt(ParamId)>>, <<"action", Str("delete")>>,
           <<"timestamp", Timestamp>> >>

\* The <<queue, message>> pairs a route of bs passes to sendToQueue, in
\* order; old is the image_url the game had.
BsMessages(rt, body, old, ch) ==
    IF rt = "POST /api/games" THEN
        IF ch # Null
        THEN << <<"image_processing", << <<"gameId", InsertId>>,
                                         <<"imageUrl", Or(Get(body, "imageUrl"), JsNull)>> >> >>,
                <<"metadata_enrichment", << <<"gameId", InsertId>>,
                                            <<"title", Get(body, "title")>>,
                                            <<"developer", Get(body, "developer")>> >> >> >>
        ELSE <<>>
    ELSE IF Get(body, "imageUrl") # old /\ ch # Null
        THEN << <<"image_processing", << <<"gameId", ParseInt(ParamId)>>,
                                         <<"imageUrl", Or(Get(body, "imageUrl"), JsNull)>> >> >> >>
        ELSE <<>>

\* mp answering 503 when sendToQueue returned false
FinalStatus_Unavailable(r, rt, result) ==
    IF r = "mp" THEN IF result THEN 201 ELSE 503
    ELSE IF rt = "POST /api/games" THEN 201
    ELSE 200

\* The status a route answers with after its sendToQueue call returned
\* `result`.
FinalStatus(r, rt, result) ==
    IF r = "mp" THEN IF result THEN 201 ELSE 500
    ELSE IF rt = "POST /api/games" THEN 201
    ELSE 200

\* A route of bs calls sendToQueue for each of msgs without awaiting it and
\* answers: sendToQueue of bs has no await, so each call has returned when
\* the next statement runs.
BsPublish(i, rq, msgs) ==
    \E a1 \in (IF Len(msgs) >= 1 THEN TransportAnswers(rabbitChannel) ELSE {"none"}),
       a2 \in (IF Len(msgs) >= 2 THEN TransportAnswers(rabbitChannel) ELSE {"none"}),
       w1 \in BOOLEAN, w2 \in BOOLEAN :
        LET q1 == IF Len(msgs) >= 1 THEN Put(queue, msgs[1][1], msgs[1][2], w1) ELSE queue
            q2 == IF Len(msgs) >= 2 THEN Put(q1, msgs[2][1], msgs[2][2], w2) ELSE q1
            answers == <<a1, a2>>
        IN  /\ IF Len(msgs) >= 1 THEN Took(queue, msgs[1][1], a1, w1) ELSE ~w1
            /\ IF Len(msgs) >= 2 THEN Took(q1, msgs[2][1], a2, w2) ELSE ~w2
            /\ queue' = q2
            /\ req' = [req EXCEPT ![i] =
                        [rq EXCEPT !.pc = "responded",
                                   !.status = FinalStatus(role, rq.route, TRUE),
                                   !.sent = [k \in 1..Len(msgs) |->
                                                [q |-> msgs[k][1], message |-> msgs[k][2],
                                                 ok |-> answers[k] = "true"]]]]
            /\ UNCHANGED <<calls, rabbitConnection, rabbitChannel, timers, attempts>>

\* A request reaches the publishing part of its route: the route of mp is
\* entered, or the last query of a route of ge or bs has settled.  It
\* answers at once, or calls sendToQueue.
Request(i) ==
    /\ Alive
    /\ listening
    /\ calls[i].pc = "idle"
    /\ req[i].pc = "none"
    /\ \E rt \in Routes(role) : \E body \in Bodies(rt) :
       \E db \in DbResults(role, rt) : \E old \in OldImageUrls(role, rt) :
        LET early == EarlyStatus(role, rt, body, db, rabbitChannel)
            rq == [NoRequest EXCEPT !.pc = "sending", !.route = rt,
                                    !.wrote = (role # "mp" /\ early = 0)]
        IN  IF early # 0
            THEN /\ req' = [req EXCEPT ![i] = [rq EXCEPT !.pc = "responded", !.status = early]]
                 /\ UNCHANGED <<calls, rabbitConnection, rabbitChannel, timers, attempts, queue>>
            ELSE IF role = "bs"
            THEN BsPublish(i, rq, BsMessages(rt, body, old, rabbitChannel))
            ELSE /\ SendToQueue(i, <<"game_events", Message(rt, body)>>)
                 /\ req' = [req EXCEPT ![i] = rq]
    /\ UNCHANGED <<role, games, update, consumer, proc, listening, nextConn, conn, handlers, declared, conflict, signalSeen>>

\* The sendToQueue call a route of mp or ge awaited has returned: the route
\* answers.
Respond(i) ==
    /\ Alive
    /\ req[i].pc = "sending"
    /\ calls[i].pc = "done"
    /\ req' = [req EXCEPT ![i] =
                [@ EXCEPT !.pc = "responded",
                          !.status = FinalStatus(role, req[i].route, calls[i].result),
                          !.sent = <<[q |-> calls[i].queue, message |-> calls[i].message,
                                      ok |-> calls[i].result]>>]]
    /\ calls' = [calls EXCEPT ![i] = IdleCall]
    /\ UNCHANGED <<role, games, update, consumer, proc, rabbitConnection, rabbitChannel, listening, timers, attempts,
                   nextConn, conn, handlers, declared, conflict, queue, signalSeen>>

\* The answer is with the client.
Forget(i) ==
    /\ req[i].pc = "responded"
    /\ req' = [req EXCEPT ![i] = NoRequest]
    /\ UNCHANGED <<role, games, update, consumer, proc, rabbitConnection, rabbitChannel, listening, timers, attempts,
                   calls, nextConn, conn, handlers, declared, conflict, queue, signalSeen>>

\* The process with its routes as the callers of sendToQueue.  The loss of a
\* connection shows as its "close" event.
RouteNext ==
    \/ \E a \in Slots : ConnectOk(a)
    \/ \E a \in Slots : ConnectFail(a)
    \/ \E a \in Slots : CreateChannelOk(a)
    \/ \E a \in Slots : CreateChannelFail(a)
    \/ \E a \in Slots : AssertQueueOk(a)
    \/ \E a \in Slots : AssertQueueFail(a)
    \/ \E a \in Slots : DelayDone(a)
    \/ TimerFire
    \/ \E c \in ConnIds : CloseSignal(c)
    \/ \E i \in CallIds : Request(i)
    \/ \E i \in CallIds : Respond(i)
    \/ \E i \in CallIds : Forget(i)
    \/ \E q \in QueueNames : Consume(q)

RouteSpec == Init /\ [][RouteNext]_vars

\* ------------------------------------------------------------ shutdown
\* The SIGINT handler without its try/catch: the rejection of close() is
\* unhandled and ends the process with code 1
AfterClose_NoCatch(p, c, ok) ==
    IF ok THEN [p EXCEPT !.pc = "exited", !.code = 0, !.found = c]
    ELSE [p EXCEPT !.pc = "exited", !.code = 1, !.found = c]

\* The SIGINT handler from the settling of `await rabbitConnection.close()`
\* on: the log line, or the catch block and its log line, then
\* process.exit(0).  c is the connection the handler had read.
AfterClose(p, c, ok) ==
    IF ok THEN [p EXCEPT !.pc = "exited", !.code = 0, !.found = c]
    ELSE [p EXCEPT !.pc = "exited", !.code = 0, !.found = c, !.logged = TRUE]

\* SIGINT is delivered and the handler runs.  With rabbitConnection null it
\* exits at once.  Otherwise it calls close(): on an open connection the
\* close is sent and the handler waits; on any other the call throws, the
\* catch block logs, and the handler exits.
Sigint ==
    /\ Alive
    /\ proc.sigints < MaxSigints
    /\ IF rabbitConnection = Null
       THEN /\ proc' = [proc EXCEPT !.pc = "exited", !.code = 0, !.found = Null,
                                    !.sigints = @ + 1]
            /\ UNCHANGED conn
       ELSE IF conn[rabbitConnection] = "open"
       THEN /\ proc' = [proc EXCEPT !.pc = "closing", !.sigints = @ + 1,
                                    !.closing = @ \cup {rabbitConnection}]
            /\ conn' = [conn EXCEPT ![rabbitConnection] = "closing"]
       ELSE /\ proc' = AfterClose([proc EXCEPT !.sigints = @ + 1], rabbitConnection, FALSE)
            /\ UNCHANGED conn
    /\ UNCHANGED <<role, games, update, consumer, req, rabbitConnection, rabbitChannel, listening, timers, attempts,
                   calls, nextConn, handlers, declared, conflict, queue, signalSeen>>

\* The broker confirms the close of c: the connection emits "close", its
\* handlers run, and the handler that awaited close() goes on to exit.
CloseResolves(c) ==
    /\ Alive
    /\ c \in proc.closing
    /\ conn[c] = "closing"
    /\ conn' = [conn EXCEPT ![c] = "closed"]
    /\ SetGlobals(RunHandlers(role, handlers[c], Globals))
    /\ signalSeen' = (signalSeen \/ handlers[c] > 0)
    /\ proc' = AfterClose(proc, c, TRUE)
    /\ UNCHANGED <<role, games, update, consumer, req, listening, attempts, calls, nextConn, handlers, declared,
                   conflict, queue>>

\* close() on c rejects while the close is under way.
CloseRejects(c) ==
    /\ Alive
    /\ c \in proc.closing
    /\ conn[c] = "closing"
    /\ proc' = AfterClose(proc, c, FALSE)
    /\ UNCHANGED <<role, games, update, consumer, req, rabbitConnection, rabbitChannel, listening, timers, attempts,
                   calls, nextConn, conn, handlers, declared, conflict, queue, signalSeen>>

\* The process with SIGINT delivered at any time, its connection made, lost
\* and made again around it.  No request is served: the handler reads
\* rabbitConnection only.
ShutdownNext ==
    \/ \E a \in Slots : ConnectOk(a)
    \/ \E a \in Slots : ConnectFail(a)
    \/ \E a \in Slots : CreateChannelOk(a)
    \/ \E a \in Slots : CreateChannelFail(a)
    \/ \E a \in Slots : AssertQueueOk(a)
    \/ \E a \in Slots : AssertQueueFail(a)
    \/ \E a \in Slots : DelayDone(a)
    \/ TimerFire
    \/ \E c \in ConnIds : ErrorSignal(c)
    \/ \E c \in ConnIds : CloseSignal(c)
    \/ Sigint
    \/ \E c \in ConnIds : CloseResolves(c)
    \/ \E c \in ConnIds : CloseRejects(c)

ShutdownSpec == Init /\ [][ShutdownNext]_vars

\* The process with a broker that may restart.
RestartNext == Next \/ BrokerRestart

RestartSpec == Init /\ [][RestartNext]_vars

\* One step of the connectToRabbitMQ invocation in slot a: a promise of the
\* transport settles, or the delay of the loop ends.
AttemptStep(a) ==
    \/ ConnectOk(a)
    \/ ConnectFail(a)
    \/ CreateChannelOk(a)
    \/ CreateChannelFail(a)
    \/ AssertQueueOk(a)
    \/ AssertQueueFail(a)
    \/ DelayDone(a)

\* Every promise the transport gave to a connectToRabbitMQ invocation that a
\* sendToQueue call awaits settles, and the event loop runs its continuation.
FairSpec ==
    /\ Spec
    /\ \A i \in CallIds :
          WF_vars(\E a \in Slots : /\ Active(a)
                                   /\ attempts[a].caller = "call"
                                   /\ attempts[a].cid = i
                                   /\ AttemptStep(a))

\* ================================================================ claims

\* C1: in every process, when the connection the process holds, with its
\* handlers installed, emits error or close, that step leaves
\* rabbitConnection and rabbitChannel null and sets reconnect timers of
\* ReconnectDelay, and nothing else.
C1_SignalClearsAndSchedules ==
    [][\A c \in ConnIds :
          (rabbitConnection = c /\ handlers[c] > 0 /\ conn'[c] # conn[c])
              => /\ rabbitConnection' = Null
                 /\ rabbitChannel' = Null
                 /\ Len(timers') > Len(timers)
                 /\ \A k \in (Len(timers) + 1)..Len(timers') : timers'[k] = ReconnectDelay]_vars

\* the state C1 is about: the held connection has its handlers and is open
C1_HeldWithHandlers ==
    /\ rabbitConnection # Null
    /\ handlers[rabbitConnection] > 0
    /\ conn[rabbitConnection] = "open"

\* C2: once a handler has seen a connection go, and no close signal is
\* still to come, the process is never without an open connection and
\* without a reconnect under way (a timer set or a connectToRabbitMQ
\* invocation running): it never gives up.
C2_NeverGivesUp ==
    (/\ signalSeen
     /\ rabbitConnection = Null \/ conn[rabbitConnection] # "open"
     /\ \A c \in ConnIds : conn[c] # "erred") => Pending > 0
C4_ThrowClearsAndSchedules ==
    [][\A i \in CallIds :
          (calls[i].pc # "done" /\ calls'[i].pc = "done" /\ calls'[i].outcome = "throw")
              => /\ rabbitConnection' = Null
                 /\ rabbitChannel' = Null
                 /\ timers' = Append(timers, ReconnectDelay)
                 /\ ~calls'[i].result
                 /\ ~calls'[i].threw]_vars

C6_ChannelOnHeldConnection ==
    rabbitChannel # Null => (rabbitConnection # Null /\ rabbitChannel = rabbitConnection)
RECURSIVE PropsEq(_, _)
PropsEq(a, b) ==
    \A k \in Keys(a) \cup Keys(b) :
        LET x == Get(a, k)
            y == Get(b, k)
        IN  IF x.t = "obj" /\ y.t = "obj" THEN PropsEq(x.o, y.o) ELSE x = y

C9_BufferFullReturnsFalse ==
    \A i \in CallIds :
        calls[i].outcome = "false"
            => (calls[i].pc = "done" /\ ~calls[i].result /\ calls[i].sends = 1)

\* a call got false from the transport
C9_TransportSaidFalse ==
    \E i \in CallIds : calls[i].outcome = "false" /\ calls[i].sends = 1

\* the queues a process declares, as a set
DeclaredBy(r) == {QueuesOf(r)[k] : k \in 1..Len(QueuesOf(r))}

\* C10: every assertQueue of a connectToRabbitMQ invocation is issued on
\* the channel that invocation created; no declaration is ever refused for
\* conflicting flags and every declared queue is durable; once an
\* invocation has succeeded, every queue of the process is declared; and
\* every queue name passed to sendToQueue is one the process declares.
C10_DeclaredOnNewChannelDurable ==
    /\ \A a \in Slots :
          (Active(a) /\ attempts[a].pc = "assertQueue") => attempts[a].ch = attempts[a].c
    /\ ~conflict
    /\ \A q \in QueueNames : declared[q] \in {"none", "durable"}
    /\ (\E c \in ConnIds : handlers[c] > 0)
          => \A q \in DeclaredBy(role) : declared[q] = "durable"
    /\ \A i \in CallIds : calls[i].pc # "idle" => calls[i].queue \in DeclaredBy(role)
\* C11: every envelope the broker holds was sent persistent, and a restart
\* of the broker keeps every envelope it held, in order.
C11_PersistentSurvivesRestart ==
    [][/\ \A k \in 1..Len(queue') : queue'[k].env.persistent
       /\ BrokerRestart
            => /\ Len(queue') = Len(queue)
               /\ \A k \in 1..Len(queue) :
                     queue'[k].q = queue[k].q /\ queue'[k].env = queue[k].env]_vars

\* an envelope a call sent is still in its queue after a restart of the broker
C11_SurvivedRestart ==
    \E k \in 1..Len(queue) : queue[k].restarted /\ queue[k].env.persistent
\* C12: a sendToQueue call has invoked connectToRabbitMQ at most once and
\* channel.sendToQueue at most once, at every point of its run and whatever
\* it returns.
C12_NoRetryInsideCall ==
    \A i \in CallIds : calls[i].connects <= 1 /\ calls[i].sends <= 1

\* a call that found the channel null has connected once, sent once, and is
\* complete
C12_ConnectedOnceSentOnce ==
    \E i \in CallIds :
        /\ calls[i].pc = "done"
        /\ calls[i].startNull
        /\ calls[i].connects = 1
        /\ calls[i].sends = 1
\* bs serves requests without ever having had a broker connection: the
\* startup call of connectToRabbitMQ returned { connection: null, channel:
\* null }, so no handler was ever installed.
Degraded == role = "bs" /\ listening /\ \A c \in ConnIds : handlers[c] = 0

\* C16: in bs an invocation of connectToRabbitMQ is never past its fifth
\* attempt, and between two attempts it waits 5000 ms; when the startup
\* invocation has failed five times the server listens with both references
\* null and no reconnect scheduled, and from then on every sendToQueue call
\* returns false without a send.
C16_BoundedStartupThenDegraded ==
    /\ role = "bs"
         => \A a \in 1..Len(attempts) :
               /\ attempts[a].n <= Retries
               /\ attempts[a].pc = "delay" => attempts[a].wait = Delay /\ attempts[a].n < Retries
    /\ Degraded
         => /\ rabbitConnection = Null
            /\ rabbitChannel = Null
            /\ Pending = 0
            /\ \A i \in CallIds :
                  calls[i].pc # "idle"
                      => calls[i].pc = "done" /\ ~calls[i].result /\ calls[i].sends = 0

\* bs listens after five failed attempts, one of which had got as far as a
\* connection, and a sendToQueue call has returned
C16_DegradedCallReturned ==
    /\ Degraded
    /\ nextConn > 1
    /\ \E i \in CallIds : calls[i].pc = "done"
\* C13: when the connection the process holds, with its handlers
\* installed, emits error or close, /health reports the broker as
\* disconnected from that step on; and whenever /health reports it as
\* disconnected no open connection with a channel is held.
C13_HealthFollowsSignals ==
    [][\A dev \in BOOLEAN :
          /\ \A c \in ConnIds :
                (rabbitConnection = c /\ handlers[c] > 0 /\ conn'[c] # conn[c])
                    => Health(role, rabbitConnection', rabbitChannel', dev).rabbitmq
                            = "disconnected"
          /\ Health(role, rabbitConnection', rabbitChannel', dev).rabbitmq = "disconnected"
                => ~(/\ rabbitConnection' # Null
                     /\ rabbitChannel' = rabbitConnection'
                     /\ conn'[rabbitConnection'] = "open")]_vars

\* /health is asked while the held connection, handlers installed, is open
\* and its channel is held: the answer has status 200 and does not say
\* disconnected
C13_AskedWhileConnected ==
    /\ listening
    /\ rabbitConnection # Null
    /\ rabbitChannel = rabbitConnection
    /\ handlers[rabbitConnection] > 0
    /\ conn[rabbitConnection] = "open"
    /\ \A dev \in BOOLEAN :
          /\ Health(role, rabbitConnection, rabbitChannel, dev).code = 200
          /\ Health(role, rabbitConnection, rabbitChannel, dev).rabbitmq # "disconnected"
\* C14: the process exits with code 0 only, and the SIGINT handler that
\* calls process.exit had either found rabbitConnection null, or awaited
\* close() on the connection it found: that connection is closed, or the
\* failure of close() was logged.
C14_ClosedOrLoggedThenExitZero ==
    [][(proc.pc # "exited" /\ proc'.pc = "exited")
          => /\ proc'.code = 0
             /\ \/ proc'.found = Null /\ rabbitConnection = Null
                \/ proc'.found # Null /\ conn'[proc'.found] = "closed" /\ ~proc'.logged
                \/ proc'.found # Null /\ proc'.logged]_vars

\* the process has exited after the close of the connection it held, with
\* handlers installed, was confirmed
C14_ExitedAfterClose ==
    /\ proc.pc = "exited"
    /\ proc.code = 0
    /\ proc.found # Null
    /\ handlers[proc.found] > 0
    /\ conn[proc.found] = "closed"
    /\ ~proc.logged

\* C15: while a SIGINT handler waits for close(), something that will end
\* the wait is still to come: the close it awaits can still be confirmed or
\* fail.
C15_ExitStillToCome ==
    proc.pc = "closing" => \E c \in proc.closing : conn[c] = "closing"

ShapeEvent(m) ==
    /\ Get(m, "gameId").t = "num"
    /\ Get(m, "action") \in {Str("create"), Str("update"), Str("delete")}
    /\ Get(m, "gameData").t = "obj"
    /\ Get(m, "timestamp").t = "str"

\* the second shape
ShapeCustom(m) ==
    /\ Get(m, "type") = Str("custom")
    /\ Get(m, "message").t = "str"
    /\ Get(m, "timestamp").t = "str"

\* C18: every envelope in game_events holds a message of one of the two
\* shapes: a numeric gameId, an action among create, update and delete, a
\* gameData object and a timestamp; or type "custom", a message string and
\* a timestamp.
C18_GameEventsShapes ==
    \A k \in 1..Len(queue) :
        queue[k].q = "game_events"
            => \/ ShapeEvent(JSONParse(queue[k].env.body))
               \/ ShapeCustom(JSONParse(queue[k].env.body))

\* an envelope of the first shape, sent by a route, is in game_events
C18_EventQueued ==
    \E k \in 1..Len(queue), i \in CallIds :
        /\ queue[k].q = "game_events"
        /\ ShapeEvent(JSONParse(queue[k].env.body))
        /\ req[i].pc = "sending"
        /\ calls[i].pc = "done"
        /\ calls[i].result

\* C19: a route of ge that has answered made exactly one sendToQueue call
\* to game_events, which returned true, with the game's id, the action of
\* the route and the game data, when its INSERT, UPDATE or DELETE was
\* carried out, and made none when it was not.
C19_WriteThenOnePublish ==
    \A i \in CallIds :
        (role = "ge" /\ req[i].pc = "responded")
            => IF req[i].wrote
               THEN /\ Len(req[i].sent) = 1
                    /\ req[i].sent[1].ok
                    /\ req[i].sent[1].q = "game_events"
                    /\ Get(req[i].sent[1].message, "gameId")
                          = (IF req[i].route = "POST /api/games" THEN InsertId
                             ELSE ParseInt(ParamId))
                    /\ Get(req[i].sent[1].message, "action")
                          = (IF req[i].route = "POST /api/games" THEN Str("create")
                             ELSE IF req[i].route = "PUT /api/games/:id" THEN Str("update")
                             ELSE Str("delete"))
                    /\ Get(req[i].sent[1].message, "gameData").t = "obj"
               ELSE req[i].sent = <<>>

\* a route of ge has answered after its write and a sendToQueue call that
\* returned true
C19_WrotePublished ==
    \E i \in CallIds :
        /\ role = "ge"
        /\ req[i].pc = "responded"
        /\ req[i].wrote
        /\ Len(req[i].sent) = 1
        /\ req[i].sent[1].ok

\* the sendToQueue calls of a request to queue q
SentTo(r, q) == SelectSeq(r.sent, LAMBDA e : e.q = q)

\* C20: a route of bs that has added or updated a game has made one
\* sendToQueue call to image_processing, with the game's id and an image
\* URL, and one to metadata_enrichment, with the game's id, its title and
\* its developer.
C20_BothQueuesOnAddAndUpdate ==
    \A i \in CallIds :
        (role = "bs" /\ req[i].pc = "responded" /\ req[i].wrote)
            => /\ Len(SentTo(req[i], "image_processing")) = 1
               /\ Len(SentTo(req[i], "metadata_enrichment")) = 1
               /\ Len(req[i].sent) = 2
               /\ \A k \in 1..2 : Get(req[i].sent[k].message, "gameId").t = "num"
               /\ "imageUrl" \in Keys(SentTo(req[i], "image_processing")[1].message)
               /\ {"title", "developer"}
                     \subseteq Keys(SentTo(req[i], "metadata_enrichment")[1].message)

\* POST /api/games of bs has sent both messages
C20_AddSentBoth ==
    \E i \in CallIds :
        /\ role = "bs"
        /\ req[i].pc = "responded"
        /\ req[i].route = "POST /api/games"
        /\ Len(SentTo(req[i], "image_processing")) = 1
        /\ Len(SentTo(req[i], "metadata_enrichment")) = 1
\* C24: at most one reconnect is outstanding, a timer set or a
\* connectToRabbitMQ invocation running, and at most one connection is open.
C24_OneReconnectOutstanding ==
    /\ Pending <= 1
    /\ Cardinality({c \in ConnIds : conn[c] = "open"}) <= 1

\* the held connection, handlers installed, has emitted error and then
\* close
C24_ErrorThenClose ==
    \E c \in ConnIds : handlers[c] > 0 /\ conn[c] = "closed" /\ signalSeen
\* C25: when a connection other than the held one emits error or close
\* while the held connection is open with its channel held, that step
\* leaves rabbitConnection and rabbitChannel as they were.
C25_StaleSignalKeepsHeld ==
    [][\A c \in ConnIds :
          (/\ conn'[c] # conn[c]
           /\ conn'[c] \in {"erred", "closed"}
           /\ rabbitConnection # Null
           /\ rabbitConnection # c
           /\ conn[rabbitConnection] = "open"
           /\ rabbitChannel = rabbitConnection)
              => /\ rabbitConnection' = rabbitConnection
                 /\ rabbitChannel' = rabbitChannel]_vars

\* an older connection with handlers has a signal still to emit while a
\* later connection is held, open, with its channel
C25_OlderStillToSignal ==
    \E c \in ConnIds :
        /\ handlers[c] > 0
        /\ conn[c] \in {"open", "erred"}
        /\ rabbitConnection # Null
        /\ rabbitConnection > c
        /\ conn[rabbitConnection] = "open"
        /\ rabbitChannel = rabbitConnection
\* C26: when a sendToQueue call invokes channel.sendToQueue on a channel,
\* the connectToRabbitMQ invocation that created that channel is not still
\* awaiting an assertQueue.
C26_NoSendBeforeDeclared ==
    [][\A i \in CallIds :
          calls'[i].sends > calls[i].sends
              => ~\E a \in 1..Len(attempts) :
                     /\ attempts[a].pc = "assertQueue"
                     /\ attempts[a].c = calls'[i].usedChannel]_vars

\* a sendToQueue call has sent on the channel of a completed
\* connectToRabbitMQ invocation, its queue declared
C26_SentAfterDeclared ==
    \E i \in CallIds :
        /\ calls[i].pc = "done"
        /\ calls[i].sends = 1
        /\ calls[i].result
        /\ handlers[calls[i].usedChannel] > 0
        /\ declared[calls[i].queue] = "durable"
\* C27: when POST /api/games of either backend or PUT /api/games/:id of ge
\* has written the game with status 'pending' and answered 200 or 201,
\* it has called sendToQueue and every such call returned true.
C27_PendingHasMessage ==
    \A i \in CallIds :
        (/\ req[i].pc = "responded"
         /\ req[i].wrote
         /\ req[i].status \in {200, 201}
         /\ \/ role = "ge" /\ req[i].route \in {"POST /api/games", "PUT /api/games/:id"}
            \/ role = "bs" /\ req[i].route = "POST /api/games")
            => /\ req[i].sent # <<>>
               /\ \A k \in 1..Len(req[i].sent) : req[i].sent[k].ok

\* PUT /api/games/:id of ge has answered 200 after a sendToQueue call that
\* returned true
C27_UpdatePublished ==
    \E i \in CallIds :
        /\ role = "ge"
        /\ req[i].pc = "responded"
        /\ req[i].route = "PUT /api/games/:id"
        /\ req[i].status = 200
        /\ Len(req[i].sent) = 1
        /\ req[i].sent[1].ok

\* ------------------------------------------------------------ database
\* pool.query("SELECT ... FROM games WHERE id = ?", [id]): the rows found.
\* The requests are about the row with id ParamId; no other id has a row.
Rows(id) == IF id = ParamId THEN <<games>> ELSE <<>>

\* A value bound to a ? of a statement: pool.query writes undefined and null
\* as NULL.
SqlParam(v) == IF v.t \in {"undefined", "null"} THEN JsNull ELSE v

\* a != b of SQL: NULL when either side is NULL
SqlNe(a, b) ==
    IF SqlParam(a) = JsNull \/ SqlParam(b) = JsNull THEN "NULL"
    ELSE IF SqlParam(a) # SqlParam(b) THEN "TRUE" ELSE "FALSE"

\* The row after the UPDATE of PUT /api/games/:id, imageUrl being
\* req.body.imageUrl and old the oldImageUrl the route read.
SetUpdate(r, row, imageUrl, old) ==
    [row EXCEPT !.image_url = Or(imageUrl, JsNull),
                !.processing_status = IF r = "ge" THEN "pending"
                                      ELSE IF SqlNe(imageUrl, old) = "TRUE" THEN "pending"
                                      ELSE @]

\* processingStatus of the answer of PUT /api/games/:id
ProcessingStatus(r, imageUrl, old) ==
    IF r = "ge" THEN "pending" ELSE IF imageUrl # old THEN "pending" ELSE "completed"

\* req.body.imageUrl of the updates
NewImageUrls == {Undefined, JsNull, Str(""), ImageUrl}

\* the bodies PUT /api/games/:id is given
UpdateBody(u) == GameBody \o << <<"imageUrl", u>> >>
UpdateBodies == {UpdateBody(u) : u \in NewImageUrls} \cup {Tail(GameBody)}

\* PUT /api/games/:id up to the answer of its first query: the body is
\* validated and the game looked up.
UpdateSelect(i) ==
    /\ Alive
    /\ role # "mp"
    /\ listening
    /\ calls[i].pc = "idle"
    /\ req[i].pc = "none"
    /\ update.pc \in {"none", "answered"}
    /\ \E body \in UpdateBodies :
        LET rt == "PUT /api/games/:id"
            early == EarlyStatus(role, rt, body,
                                 IF Rows(ParamId) = <<>> THEN "missing" ELSE "ok", rabbitChannel)
        IN  IF early # 0
            THEN /\ req' = [req EXCEPT ![i] = [NoRequest EXCEPT !.pc = "responded", !.route = rt,
                                                             !.status = early]]
                 /\ update' = NoUpdate
            ELSE /\ req' = [req EXCEPT ![i] = [NoRequest EXCEPT !.pc = "querying", !.route = rt]]
                 /\ update' = [NoUpdate EXCEPT
                                !.pc = "selected",
                                !.imageUrl = Get(body, "imageUrl"),
                                !.oldImageUrl = IF role = "bs" THEN Rows(ParamId)[1].image_url
                                                ELSE Undefined]
    /\ UNCHANGED <<role, games, consumer, proc, rabbitConnection, rabbitChannel, listening,
                   timers, attempts, calls, nextConn, conn, handlers, declared, conflict,
                   queue, signalSeen>>

\* The platform and the genre are looked up and the UPDATE is carried out.
UpdateWrite(i) ==
    /\ Alive
    /\ req[i].pc = "querying"
    /\ update.pc = "selected"
    /\ \E db \in {"ok", "badRef", "error"} :
        IF db # "ok"
        THEN /\ req' = [req EXCEPT ![i] = [@ EXCEPT !.pc = "responded",
                                                    !.status = IF db = "badRef" THEN 400 ELSE 500]]
             /\ update' = NoUpdate
             /\ UNCHANGED games
        ELSE LET row == SetUpdate(role, games, update.imageUrl, update.oldImageUrl)
             IN  /\ games' = row
                 /\ update' = [update EXCEPT
                                !.pc = "updated",
                                !.pending = (role = "ge"
                                             \/ SqlNe(update.imageUrl, update.oldImageUrl) = "TRUE"),
                                !.stored = row.processing_status]
                 /\ UNCHANGED req
    /\ UNCHANGED <<role, consumer, proc, rabbitConnection, rabbitChannel, listening, timers,
                   attempts, calls, nextConn, conn, handlers, declared, conflict, queue,
                   signalSeen>>

\* The UPDATE has settled: ge awaits sendToQueue and answers in Respond; bs
\* calls sendToQueue when the image URL changed and answers.
UpdatePublish(i) ==
    /\ Alive
    /\ req[i].pc = "querying"
    /\ update.pc = "updated"
    /\ update' = [update EXCEPT !.pc = "answered",
                                !.processingStatus =
                                    ProcessingStatus(role, update.imageUrl, update.oldImageUrl)]
    /\ LET rt == "PUT /api/games/:id"
           body == UpdateBody(update.imageUrl)
           rq == [req[i] EXCEPT !.pc = "sending", !.wrote = TRUE]
       IN  IF role = "bs"
           THEN BsPublish(i, rq, BsMessages(rt, body, update.oldImageUrl, rabbitChannel))
           ELSE /\ SendToQueue(i, <<"game_events", Message(rt, body)>>)
                /\ req' = [req EXCEPT ![i] = rq]
    /\ UNCHANGED <<role, games, consumer, proc, listening, nextConn, conn, handlers, declared,
                   conflict, signalSeen>>

\* ------------------------------------------------------ outcome reports
\* the route a consumer of q reports the outcome to
OutcomeRoute(q) ==
    IF q = "game_events" THEN "PUT /api/games/:id/process-complete"
    ELSE IF q = "image_processing" THEN "PUT /api/games/:id/images"
    ELSE "PUT /api/games/:id/metadata"

\* An outcome route given req.params.id = id and req.body = body: db is
\* "ok", or "error" when the UPDATE rejects.  games is the row afterwards,
\* status the status code of the answer, landed says the UPDATE matched a
\* row.
Outcome(rt, id, body, db) ==
    IF db = "error" THEN [games |-> games, status |-> 500, landed |-> FALSE]
    ELSE [games |->
            IF Rows(id) = <<>> THEN games
            ELSE IF rt = "PUT /api/games/:id/process-complete"
                 THEN [games EXCEPT !.processing_status = Get(body, "status").s]
            ELSE IF rt = "PUT /api/games/:id/images"
                 THEN [games EXCEPT !.image_url = SqlParam(Get(body, "imageUrl")),
                                    !.processing_status = "completed"]
            ELSE [games EXCEPT !.metadata_status = "completed"],
          status |-> 200,
          landed |-> Rows(id) # <<>>]

\* ------------------------------------------------------------- consumer
\* bytes that are not a JSON document
NotJson == [text |-> "{"]

\* the body deserializes
Parseable(body) == "json" \in DOMAIN body

\* The delivery cannot be handled: the body does not parse, or has neither
\* the gameId nor the type that names its handler.
Malformed(env) ==
    \/ ~Parseable(env.body)
    \/ /\ Get(JSONParse(env.body), "gameId").t = "undefined"
       /\ Get(JSONParse(env.body), "type").t = "undefined"

\* What other publishers put on q: message-producer's events for game 42
\* and for the game of the table on game_events; the messages of a POST
\* /api/games whose game has been deleted since on the queues of bs; bytes
\* that are not JSON.
PeerEnvelopes(q) ==
    {[body |-> NotJson, persistent |-> TRUE]} \cup
    IF q = "game_events"
    THEN {Envelope(Message("POST /api/messages/game-event",
                           << <<"gameId", g>>, <<"action", Str("create")>> >>)) :
            g \in {Num("42"), ParseInt(ParamId)}}
    ELSE LET msgs == BsMessages("POST /api/games", GameBody, JsNull, 1)
         IN  {Envelope(msgs[k][2]) : k \in {j \in 1..Len(msgs) : msgs[j][1] = q}}

\* Another publisher's message reaches a queue the process consumes.
PeerPublish(q) ==
    /\ role # "mp"
    /\ Routable(q)
    /\ Len(queue) < MaxQueue
    /\ \E env \in PeerEnvelopes(q) :
        queue' = Append(queue, [q |-> q, env |-> env, restarted |-> FALSE])
    /\ UNCHANGED <<role, games, update, consumer, proc, req, rabbitConnection, rabbitChannel,
                   listening, timers, attempts, calls, nextConn, conn, handlers, declared,
                   conflict, signalSeen>>

\* The broker delivers the head envelope of q to the consumer, which holds
\* one delivery at a time, and the consumer deserializes it.
Deliver(q) ==
    /\ role # "mp"
    /\ consumer.pc = "idle"
    /\ \E k \in 1..Len(queue) :
        /\ queue[k].q = q
        /\ \A j \in 1..(k - 1) : queue[j].q # q
        /\ queue' = RemoveAt(queue, k)
        /\ consumer' = [Idle EXCEPT !.pc = IF Malformed(queue[k].env) THEN "malformed"
                                           ELSE "handling",
                                    !.q = q,
                                    !.env = queue[k].env,
                                    !.redelivered = ("redelivered" \in DOMAIN queue[k])]
    /\ UNCHANGED <<role, games, update, proc, req, rabbitConnection, rabbitChannel, listening,
                   timers, attempts, calls, nextConn, conn, handlers, declared, conflict,
                   signalSeen>>

\* The handler's own work raises a domain error.
HandlerFails ==
    /\ consumer.pc = "handling"
    /\ consumer' = [consumer EXCEPT !.pc = "failed"]
    /\ UNCHANGED <<role, games, update, proc, req, rabbitConnection, rabbitChannel, listening,
                   timers, attempts, calls, nextConn, conn, handlers, declared, conflict,
                   queue, signalSeen>>

\* req.body of the outcome report for message msg of q
ReportBody(q, msg) ==
    IF q = "game_events" THEN << <<"status", Str("completed")>> >>
    ELSE IF q = "image_processing"
         THEN << <<"imageUrl", Get(msg, "imageUrl")>>, <<"thumbnailUrl", Get(msg, "imageUrl")>> >>
    ELSE << <<"funFact", Get(msg, "title")>> >>

\* The handler has done its work and reports the outcome to the owner of
\* the game the message names; the owner's route runs and answers.
Report ==
    /\ consumer.pc = "handling"
    /\ listening
    /\ \E db \in {"ok", "error"} :
        LET msg == JSONParse(consumer.env.body)
            out == Outcome(OutcomeRoute(consumer.q), Get(msg, "gameId").s,
                           ReportBody(consumer.q, msg), db)
        IN  /\ games' = out.games
            /\ consumer' = [consumer EXCEPT !.pc = "reported", !.status = out.status,
                                            !.landed = out.landed]
    /\ UNCHANGED <<role, update, proc, req, rabbitConnection, rabbitChannel, listening, timers,
                   attempts, calls, nextConn, conn, handlers, declared, conflict, queue,
                   signalSeen>>

\* every failure negative-acknowledged with requeue
AckPolicy_RequeueAll(c) ==
    IF c.pc = "reported" /\ c.status = 200 THEN "ack" ELSE "requeue"

\* every delivery acknowledged
AckPolicy_AckAll(c) == "ack"

\* What the consumer tells the broker about the delivery it holds: "ack",
\* "requeue" (negative-acknowledge, requeue = true) or "drop"
\* (negative-acknowledge, requeue = false).
AckPolicy(c) ==
    IF c.pc = "malformed" THEN "drop"
    ELSE IF c.pc = "reported" /\ c.status = 200 THEN "ack"
    ELSE "requeue"

\* The consumer acknowledges or rejects its delivery; the broker puts a
\* requeued envelope back at the head, flagged as redelivered.
Settle ==
    /\ consumer.pc \in {"malformed", "failed", "reported"}
    /\ queue' = IF AckPolicy(consumer) = "requeue"
                THEN <<[q |-> consumer.q, env |-> consumer.env, restarted |-> FALSE,
                        redelivered |-> TRUE]>> \o queue
                ELSE queue
    /\ consumer' = Idle
    /\ UNCHANGED <<role, games, update, proc, req, rabbitConnection, rabbitChannel, listening,
                   timers, attempts, calls, nextConn, conn, handlers, declared, conflict,
                   signalSeen>>

\* The process with its database, the updates of a game as the callers of
\* sendToQueue, and the consumer of its queues.  Connections are not lost.
DataNext ==
    \/ \E a \in Slots : ConnectOk(a)
    \/ \E a \in Slots : ConnectFail(a)
    \/ \E a \in Slots : CreateChannelOk(a)
    \/ \E a \in Slots : AssertQueueOk(a)
    \/ \E a \in Slots : DelayDone(a)
    \/ \E i \in CallIds : UpdateSelect(i)
    \/ \E i \in CallIds : UpdateWrite(i)
    \/ \E i \in CallIds : UpdatePublish(i)
    \/ \E i \in CallIds : Respond(i)
    \/ \E i \in CallIds : Forget(i)
    \/ \E q \in QueueNames : PeerPublish(q)
    \/ \E q \in QueueNames : Deliver(q)
    \/ HandlerFails
    \/ Report
    \/ Settle

DataSpec == Init /\ [][DataNext]_vars

\* ------------------------------------------------------------------ C28
\* C28: when PUT /api/games/:id of backend/server.js has answered 200, the
\* UPDATE set processing_status to 'pending' exactly when the answer reports
\* processingStatus 'pending' and, the channel being held, exactly when an
\* image_processing message was passed to sendToQueue; an answer that does
\* not report 'pending' reports the processing_status the UPDATE left.
C28_StatusMessageAnswerAgree ==
    \A i \in CallIds :
        (/\ role = "bs"
         /\ update.pc = "answered"
         /\ req[i].pc = "responded"
         /\ req[i].route = "PUT /api/games/:id"
         /\ req[i].status = 200)
        => /\ update.pending <=> (update.processingStatus = "pending")
           /\ rabbitChannel # Null => (update.pending <=> (req[i].sent # <<>>))
           /\ update.processingStatus # "pending" => update.processingStatus = update.stored

\* an update that replaced a stored image URL has set 'pending', published
\* and answered 'pending'
C28_ChangedUrlAllPending ==
    \E i \in CallIds :
        /\ role = "bs"
        /\ update.pc = "answered"
        /\ update.oldImageUrl = ImageUrl
        /\ update.imageUrl = Str("")
        /\ req[i].pc = "responded"
        /\ req[i].status = 200
        /\ update.pending
        /\ req[i].sent # <<>>
        /\ update.processingStatus = "pending"

\* ------------------------------------------------------------------ C23
\* C23: an outcome route (process-complete, images, metadata) answers 200
\* only when its UPDATE matched a row of games; when no row was updated the
\* consumer gets a failure answer.
C23_SuccessOnlyWhenLanded ==
    (consumer.pc = "reported" /\ consumer.status = 200) => consumer.landed

\* an outcome report for the game of the table was answered 200 and its
\* status is stored
C23_ReportLanded ==
    /\ consumer.pc = "reported"
    /\ consumer.status = 200
    /\ consumer.landed
    /\ Get(JSONParse(consumer.env.body), "gameId") = ParseInt(ParamId)
    /\ games.processing_status = "completed"

\* ------------------------------------------------------------------ C29
\* the envelope is an event about the game of the table
AboutGame(e) ==
    /\ Parseable(e.env.body)
    /\ Get(JSONParse(e.env.body), "gameId") = ParseInt(ParamId)

\* C29: the game's processing_status is 'completed' only while no event
\* published for the game waits in the queue.
C29_CompletedMeansNoneQueued ==
    games.processing_status = "completed"
        => \A k \in 1..Len(queue) :
            ~(queue[k].q \in {"game_events", "image_processing"} /\ AboutGame(queue[k]))

\* the only event of an update has been handled and reported: the game is
\* 'completed' and nothing waits
C29_CompletedAfterOnlyEvent ==
    /\ role = "ge"
    /\ update.pc = "answered"
    /\ consumer.pc = "reported"
    /\ consumer.landed
    /\ ~consumer.redelivered
    /\ games.processing_status = "completed"
    /\ queue = <<>>

\* ------------------------------------------------------------------ C30
\* C30: when the consumer reports the outcome of an image_processing
\* message to PUT /api/games/:id/images and the row holds the image_url a
\* later update of the game stored, the report leaves that image_url as it
\* is.
C30_OlderReportKeepsLaterUrl ==
    [][(/\ role = "bs"
        /\ consumer.pc = "handling"
        /\ consumer'.pc = "reported"
        /\ consumer.q = "image_processing"
        /\ AboutGame(consumer)
        /\ update.pc \in {"updated", "answered"}
        /\ games.image_url = Or(update.imageUrl, JsNull)
        /\ Get(JSONParse(consumer.env.body), "imageUrl") # games.image_url)
       => games'.image_url = games.image_url]_vars

\* the report of the latest update's message has landed
C30_ReportOfLatestLanded ==
    /\ role = "bs"
    /\ consumer.pc = "reported"
    /\ consumer.q = "image_processing"
    /\ consumer.landed
    /\ update.pc = "answered"
    /\ update.imageUrl = ImageUrl
    /\ Get(JSONParse(consumer.env.body), "imageUrl") = ImageUrl
    /\ games.image_url = ImageUrl

\* The consumer of the process's queues at work on what other publishers
\* send, the process connected and serving the outcome routes.
ConsumerNext ==
    \/ \E a \in Slots : ConnectOk(a)
    \/ \E a \in Slots : CreateChannelOk(a)
    \/ \E a \in Slots : AssertQueueOk(a)
    \/ \E q \in QueueNames : PeerPublish(q)
    \/ \E q \in QueueNames : Deliver(q)
    \/ HandlerFails
    \/ Report
    \/ Settle

ConsumerSpec == Init /\ [][ConsumerNext]_vars

\* The broker delivers a ready envelope to a consumer that is free again
\* and again; a handler that was invoked ends, and the consumer settles the
\* delivery it holds.
FairConsumerSpec ==
    /\ ConsumerSpec
    /\ \A q \in QueueNames : SF_vars(Deliver(q))
    /\ WF_vars(HandlerFails \/ Report)
    /\ WF_vars(Settle)

\* ------------------------------------------------------------------ C21
\* the consumer settles the delivery it holds
Settles == consumer.pc \in {"malformed", "failed", "reported"} /\ consumer'.pc = "idle"

\* the delivery the consumer holds, as the broker requeues it
Requeued == [q |-> consumer.q, env |-> consumer.env, restarted |-> FALSE, redelivered |-> TRUE]

\* the handler completed: the owner answered the outcome report with 200
Succeeded == consumer.pc = "reported" /\ consumer.status = 200

\* the handler raised a domain error: in its own work, or the outcome report
\* was not answered with 200
DomainError == consumer.pc = "failed" \/ (consumer.pc = "reported" /\ consumer.status # 200)

\* when a handler fails the envelope is put back and delivered again; when
\* it succeeds the envelope is gone
RequeueThenRedeliver ==
    /\ [][Settles => /\ DomainError => queue' = <<Requeued>> \o queue
                     /\ Succeeded => queue' = queue]_vars
    /\ \A q \in QueueNames :
        (DomainError /\ consumer.q = q)
            ~> (consumer.pc \in {"handling", "malformed"} /\ consumer.q = q
                /\ consumer.redelivered)

HoldsUnparseable == consumer.pc # "idle" /\ ~Parseable(consumer.env.body)

\* a message that parses and names its handler waits in q
ValidWaits(q) == \E k \in 1..Len(queue) : queue[k].q = q /\ ~Malformed(queue[k].env)

====
